---- MODULE Spec2Model ----
(***************************************************************************)
(* Model of update_magnets.py: one run of main().                          *)
(*                                                                         *)
(*   main -> fetch_magnets -> get_domain / check_domain                    *)
(*                         -> homepage pass  (process_topic_page)          *)
(*                         -> find_tv_show_pages, episodic pass            *)
(*        -> remove_duplicates -> save_data                                *)
(*                                                                         *)
(* The network (scraper.get) and the documents it returns are the          *)
(* environment: every fetch either raises or returns a document drawn      *)
(* from a bounded universe.  Three specifications share the definitions:   *)
(*   Spec       a whole run of main()                                      *)
(*   SpecTopic  process_topic_page applied to one document                 *)
(*   SpecDedup  remove_duplicates applied to one list of entries           *)
(***************************************************************************)
EXTENDS Integers, Sequences, FiniteSets, TLC

VARIABLES
    pc,                \* position of the run in main / fetch_magnets
    mi,                \* get_domain: index of the mirror being tried
    r,                 \* check_domain: the response under examination
    probes,            \* scraper.get calls made on each mirror
    dom,               \* fetch_magnets: the resolved mirror
    potential_topics,  \* fetch_magnets: the homepage anchors kept as topics
    hi,                \* fetch_magnets: index of the homepage-pass loop (0: not entered)
    tv_links,          \* find_tv_show_pages: matching category anchors
    ci,                \* find_tv_show_pages: index of the category loop (0: not entered)
    tv_results,        \* topics returned by find_tv_show_pages
    ti,                \* fetch_magnets: index of the episodic-pass loop (0: not entered)
    results,           \* fetch_magnets: the entries collected
    items,             \* main: the catalog after remove_duplicates (<<>> before)
    saved,             \* the catalogs save_data wrote (magnets.json), in order
    fetched,           \* number of topic pages requested (scraper.get)
    finished,          \* topic cycles ended (processed, or failed and skipped)
    topic_failed,      \* some topic's cycle ended by an exception
    cat_failed,        \* find_tv_show_pages: last category whose try block failed
    dedup_runs,        \* calls of remove_duplicates
    soup,              \* SpecTopic: the document given to process_topic_page
    before,            \* SpecTopic: results as passed to process_topic_page
    raised,            \* SpecTopic: process_topic_page ended by an exception
    fragment,          \* SpecEntry: the raw title given to create_content_entry
    topic_url,         \* SpecEntry: the link given to create_content_entry
    now                \* SpecEntry: the year of the wall clock during the call

vars == <<pc, mi, r, probes, dom, potential_topics, hi, tv_links, ci,
          tv_results, ti, results, items, saved, fetched, finished,
          topic_failed, cat_failed, dedup_runs, soup, before, raised,
                   fragment, topic_url, now>>

None == "None"

(***************************************************************************)
(* Bounds of the model.                                                    *)
(***************************************************************************)
NumMirrors == 3      \* mirrors tried, a prefix of MIRRORS (7 in the program)
MAX_ENTRIES == 2     \* the cap of the homepage pass (200 in the program)
MaxLinks == 3        \* anchors on a homepage document
MaxCatTopics == 1    \* topic links on a category page
MaxTvTopics == 2     \* topics collected by find_tv_show_pages
MaxAnchors == 2      \* anchors on a topic document
MaxSections == 2     \* h3/h4/strong elements on a topic document
MaxResults == 2      \* entries collected in one run
MaxItems == 3        \* SpecDedup: entries given to remove_duplicates
MaxWords == 3        \* SpecEntry: words of a raw title
MaxHeadings == 1     \* SpecEntry: h1/h2 elements on a topic document
MaxMarkers == 2      \* SpecEntry: words of a raw title of quality markers

RECURSIVE SeqsUpTo(_, _)
\* all sequences over S of length <= n
SeqsUpTo(S, n) ==
    IF n = 0 THEN {<<>>}
    ELSE LET shorter == SeqsUpTo(S, n - 1)
         IN  shorter \cup {Append(s, x) : s \in {t \in shorter : Len(t) = n - 1}, x \in S}

(***************************************************************************)
(* CONFIG                                                                  *)
(***************************************************************************)
AllMirrors == <<"https://www.1tamilmv.fi", "https://1tamilmv.fi",
                "https://www.1tamilmv.moi", "https://www.1tamilmv.bike",
                "https://www.1tamilmv.app", "https://www.1tamilmv.tel",
                "https://www.1tamilmv.legal">>

MIRRORS == SubSeq(AllMirrors, 1, NumMirrors)

DEEP_CRAWL_TV == TRUE

(***************************************************************************)
(* urljoin: raises ValueError on a URL whose bracketed host is malformed   *)
(* ("Invalid IPv6 URL"); every other URL of the model is relative and is   *)
(* appended to the base.                                                   *)
(***************************************************************************)
BadUrls == {"http://[topic", "http://[poster.jpg"}

urljoin_raises(url) == url \in BadUrls

urljoin(base, url) == base \o url

(***************************************************************************)
(* get_domain / check_domain                                               *)
(* A response is an exception, or a status code and a body; the body is    *)
(* represented by the set of site-identity markers it contains.            *)
(***************************************************************************)
Markers == {"1TamilMV", "Tamil Movie"}

Responses ==
    {[exception |-> TRUE, status_code |-> 0, text |-> {}]}
    \cup [exception : {FALSE}, status_code : {200, 404}, text : SUBSET Markers]

\* a check_domain that trusts the status code alone
check_domain_status_only(resp) ==
    IF resp.exception THEN FALSE
    ELSE resp.status_code = 200

check_domain(resp) ==
    IF resp.exception THEN FALSE
    ELSE IF resp.status_code # 200 THEN FALSE
    ELSE IF "1TamilMV" \in resp.text \/ "Tamil Movie" \in resp.text THEN TRUE
    ELSE FALSE

(***************************************************************************)
(* Documents.  A string test of the program ('/' in href, startswith,      *)
(* "tv" in href.lower()) is decided per string of the model's universe.    *)
(***************************************************************************)
TopicText == "Leo Tamil HDRip"
TvTopicText == "Office Tamil Series"

HomeAnchors ==
    { [text |-> TopicText, href |-> "/topic/1-leo"],
      [text |-> TopicText, href |-> "http://[topic"],
      [text |-> "TV", href |-> "/forums/tv"],
      [text |-> "Home", href |-> "#top"] }

HomePages == SeqsUpTo(HomeAnchors, MaxLinks)

\* the first anchor lists the topic of the homepage, under the text the
\* category page shows for it
CategoryAnchors ==
    { [text |-> TvTopicText, href |-> "/topic/1-leo"],
      [text |-> "", href |-> "/topic/3-untitled"],
      [text |-> TvTopicText, href |-> "http://[topic"] }

CategoryPages == SeqsUpTo(CategoryAnchors, MaxCatTopics)

MagnetA == "magnet:?xt=urn:btih:a"
MagnetB == "magnet:?xt=urn:btih:b"

TopicHrefs == {MagnetA, MagnetB, "/index.php"}
SectionTexts == {"720p", "1080p HD"}
ImgSrcs == {"/poster.jpg", "http://[poster.jpg"}
PageTitles == {"Leo", "Leo (2023) Tamil Movie"}

Docs ==
    [anchors : SeqsUpTo(TopicHrefs, MaxAnchors),
     quality_sections : SeqsUpTo(SectionTexts, MaxSections),
     img : ImgSrcs,
     title : PageTitles,
     pagetitle : {""},
     headings : {<<>>}]

\* href.startswith('magnet:')
startswith_magnet_scheme(href) == href \in {MagnetA, MagnetB}

\* href.startswith("magnet:?")
startswith_magnet(href) == href \in {MagnetA, MagnetB}

\* '/' in href
contains_slash(href) ==
    href \in {"/topic/1-leo", "http://[topic", "/forums/tv", "/topic/2-office",
              "/topic/3-untitled", "/index.php"}

\* "tv" in s.lower() or "series" in s.lower()
contains_tv_keyword(s) == s \in {"TV", "/forums/tv", TvTopicText}

(***************************************************************************)
(* Strings.  Titles, texts and URLs are character strings; the operators   *)
(* below are the str and re operations the extractors use, computed        *)
(* character by character.                                                 *)
(***************************************************************************)
Digits == {"0", "1", "2", "3", "4", "5", "6", "7", "8", "9"}

\* the element of a one-element set.  {f(v) : v \in {e}} computes e once and
\* gives f the value; the operators below use it where a computed string is
\* read many times.
only(S) == CHOOSE v \in S : TRUE

\* s[i] of a 1-based string, "" outside of it
ch(s, i) == IF 1 <= i /\ i <= Len(s) THEN SubSeq(s, i, i) ELSE ""

\* s[i-1:j-1] of Python: the characters i .. j-1
slice(s, i, j) == IF i < j THEN SubSeq(s, i, j - 1) ELSE ""

\* s[i-1:]
slice_from(s, i) == slice(s, i, Len(s) + 1)

\* the text at position i is pat
at(s, i, pat) == i >= 1 /\ i + Len(pat) - 1 <= Len(s) /\ slice(s, i, i + Len(pat)) = pat

\* s.find(pat) + 1: the first position of pat in s, 0 when absent
find(s, pat) ==
    LET hits == {i \in 1..Len(s) : at(s, i, pat)}
    IN  IF hits = {} THEN 0 ELSE CHOOSE i \in hits : \A j \in hits : i <= j

\* pat in s
contains(s, pat) == find(s, pat) > 0

\* s.startswith(pat), s.endswith(pat)
startswith(s, pat) == at(s, 1, pat)

endswith(s, pat) == Len(pat) <= Len(s) /\ at(s, Len(s) - Len(pat) + 1, pat)

\* s.strip()
strip(s) ==
    LET idx == {i \in 1..Len(s) : ch(s, i) # " "}
    IN  IF idx = {} THEN ""
        ELSE slice(s, CHOOSE i \in idx : \A j \in idx : i <= j,
                      (CHOOSE i \in idx : \A j \in idx : i >= j) + 1)

\* the position after the run of whitespace (\s*) that starts at i
RECURSIVE skip_spaces(_, _)
skip_spaces(s, i) == IF ch(s, i) = " " THEN skip_spaces(s, i + 1) ELSE i

\* the position after the run of digits (\d*) that starts at i
RECURSIVE skip_digits(_, _)
skip_digits(s, i) == IF ch(s, i) \in Digits THEN skip_digits(s, i + 1) ELSE i

\* \((\d{4})\) matches at position q
is_year_group(s, q) ==
    /\ ch(s, q) = "("
    /\ \A k \in 1..4 : ch(s, q + k) \in Digits
    /\ ch(s, q + 5) = ")"

\* f"{int(digits):02d}"
RECURSIVE lstrip_zeros(_)
lstrip_zeros(digits) ==
    IF Len(digits) > 1 /\ ch(digits, 1) = "0"
    THEN lstrip_zeros(slice_from(digits, 2))
    ELSE digits

pad2(digits) ==
    LET n == lstrip_zeros(digits)
    IN  IF Len(n) < 2 THEN "0" \o n ELSE n

(***************************************************************************)
(* extract_languages: one tag for every pattern of every language that is  *)
(* a substring of the title, in the order of lang_patterns.                *)
(***************************************************************************)
lang_patterns ==
    << <<"TAM", "Tamil">>,    <<"TAM", "TAM">>,
       <<"TEL", "Telugu">>,   <<"TEL", "TEL">>,
       <<"HIN", "Hindi">>,    <<"HIN", "HIN">>,
       <<"KAN", "Kannada">>,  <<"KAN", "KAN">>,
       <<"MAL", "Malayalam">>, <<"MAL", "MAL">>,
       <<"ENG", "English">>,  <<"ENG", "ENG">>,
       <<"JAP", "Japanese">>, <<"JAP", "JAP">> >>

extract_languages(title) ==
    LET matches(p) == contains(title, p[2])
        hits == SelectSeq(lang_patterns, matches)
    IN  [i \in 1..Len(hits) |-> hits[i][1]]

(***************************************************************************)
(* extract_tv_info.  A result is [is_tv_show, show_name, season, episode,  *)
(* year].                                                                  *)
(***************************************************************************)
no_tv_info ==
    [is_tv_show |-> FALSE, show_name |-> "", season |-> "", episode |-> "",
     year |-> ""]

\* the positions of the "(" of a title
parens(s) == {q \in 1..Len(s) : ch(s, q) = "("}

\* the start of the "(" -free stretch that ends before the "(" at q
stretch_start(s, q) ==
    LET earlier == {k \in parens(s) : k < q}
    IN  IF earlier = {} THEN 1
        ELSE (CHOOSE k \in earlier : \A j \in earlier : k >= j) + 1

\* \s+S(\d+)\s+EP\s*\(?(\d+(?:-\d+)?)\)? matched from position j on;
\* a result is [ok, season, episode]
ep_tail(s, j) ==
    LET j1 == skip_spaces(s, j)
        d1 == skip_digits(s, j1 + 1)
        j2 == skip_spaces(s, d1)
        j3 == skip_spaces(s, j2 + 2)
        j4 == IF ch(s, j3) = "(" THEN j3 + 1 ELSE j3
        e1 == skip_digits(s, j4)
        e2 == IF ch(s, e1) = "-" /\ skip_digits(s, e1 + 1) > e1 + 1
              THEN skip_digits(s, e1 + 1) ELSE e1
    IN  [ok |-> /\ j1 > j
                /\ ch(s, j1) \in {"S", "s"}
                /\ d1 > j1 + 1
                /\ j2 > d1
                /\ slice(s, j2, j2 + 2) \in {"EP", "Ep", "eP", "ep"}
                /\ e1 > j4,
         season |-> slice(s, j1 + 1, d1),
         episode |-> slice(s, j4, e2)]

\* re.search of ([^(]+)\s*\((\d{4})\)\s+S(\d+)\s+EP\s*\(?(\d+(?:-\d+)?)\)?
\* with re.IGNORECASE; a result is [ok, show, year, season, episode] with
\* the groups as matched
tv_match(s) ==
    LET hits == {q \in parens(s) : /\ stretch_start(s, q) < q
                                   /\ is_year_group(s, q)
                                   /\ ep_tail(s, q + 6).ok}
    IN  IF hits = {}
        THEN [ok |-> FALSE, show |-> "", year |-> "", season |-> "", episode |-> ""]
        ELSE LET q == CHOOSE i \in hits : \A j \in hits : i <= j
                 t == ep_tail(s, q + 6)
             IN  [ok |-> TRUE,
                  show |-> slice(s, stretch_start(s, q), q),
                  year |-> slice(s, q + 1, q + 5),
                  season |-> t.season,
                  episode |-> t.episode]

\* \s+S(\d+)[Ee](\d+) matched from position c on; [ok, season, episode]
se_core(s, c) ==
    LET c1 == skip_spaces(s, c)
        d1 == skip_digits(s, c1 + 1)
        d2 == skip_digits(s, d1 + 1)
    IN  [ok |-> /\ c1 > c
                /\ ch(s, c1) \in {"S", "s"}
                /\ d1 > c1 + 1
                /\ ch(s, d1) \in {"E", "e"}
                /\ d2 > d1 + 1,
         season |-> slice(s, c1 + 1, d1),
         episode |-> slice(s, d1 + 1, d2)]

\* where the rest of the alternative pattern starts when the lazy show
\* name is s[1..k]: after an optional \s*\(\d{4}\), 0 when it cannot match
alt_core_at(s, k) ==
    LET y == skip_spaces(s, k + 1)
    IN  IF is_year_group(s, y) /\ se_core(s, y + 6).ok THEN y + 6
        ELSE IF se_core(s, k + 1).ok THEN k + 1
        ELSE 0

\* re.search of (.+?)(?:\s*\(\d{4}\))?\s+S(\d+)[Ee](\d+) with re.IGNORECASE;
\* a result is [ok, show, season, episode]
alt_match(s) ==
    LET hits == {k \in 1..Len(s) : alt_core_at(s, k) > 0}
    IN  IF hits = {}
        THEN [ok |-> FALSE, show |-> "", season |-> "", episode |-> ""]
        ELSE LET k == CHOOSE i \in hits : \A j \in hits : i <= j
                 t == se_core(s, alt_core_at(s, k))
             IN  [ok |-> TRUE, show |-> slice(s, 1, k + 1),
                  season |-> t.season, episode |-> t.episode]

\* re.search(r'\((\d{4})\)', title): the four digits, "" when absent
year_group(s) ==
    LET hits == {q \in parens(s) : is_year_group(s, q)}
    IN  IF hits = {} THEN ""
        ELSE slice(s, (CHOOSE i \in hits : \A j \in hits : i <= j) + 1,
                      (CHOOSE i \in hits : \A j \in hits : i <= j) + 5)

\* lines 272-278: the info of a match of the standard pattern
standard_info(tv) ==
    [is_tv_show |-> TRUE, show_name |-> strip(tv.show),
     season |-> "S" \o pad2(tv.season), episode |-> "EP" \o tv.episode,
     year |-> tv.year]

\* an alternative_info that leaves the episode empty
alternative_info_no_episode(alt, year) ==
    [is_tv_show |-> TRUE, show_name |-> strip(alt.show),
     season |-> "S" \o pad2(alt.season), episode |-> "",
     year |-> year]

\* lines 282-292: the info of a match of the alternative pattern
alternative_info(alt, year) ==
    [is_tv_show |-> TRUE, show_name |-> strip(alt.show),
     season |-> "S" \o pad2(alt.season),
     episode |-> "E" \o pad2(alt.episode),
     year |-> year]

\* the info for the matches tv and alt of the two patterns
tv_info_of(tv, alt, year) ==
    IF tv.ok THEN standard_info(tv)
    ELSE IF alt.ok THEN alternative_info(alt, year)
    ELSE no_tv_info

extract_tv_info(title) ==
    tv_info_of(tv_match(title), alt_match(title), year_group(title))

(***************************************************************************)
(* extract_quality                                                         *)
(***************************************************************************)
\* an extract_quality that appends "4K" once per marker found
extract_quality_per_marker(title) ==
    (IF contains(title, "1080p") THEN <<"1080p">> ELSE <<>>)
    \o (IF contains(title, "720p") THEN <<"720p">> ELSE <<>>)
    \o (IF contains(title, "480p") THEN <<"480p">> ELSE <<>>)
    \o (IF contains(title, "2160p") THEN <<"4K">> ELSE <<>>)
    \o (IF contains(title, "4K") THEN <<"4K">> ELSE <<>>)
    \o (IF contains(title, "UHD") THEN <<"4K">> ELSE <<>>)
    \o (IF contains(title, "HDR") THEN <<"HDR">> ELSE <<>>)

extract_quality(title) ==
    (IF contains(title, "1080p") THEN <<"1080p">> ELSE <<>>)
    \o (IF contains(title, "720p") THEN <<"720p">> ELSE <<>>)
    \o (IF contains(title, "480p") THEN <<"480p">> ELSE <<>>)
    \o (IF contains(title, "2160p") \/ contains(title, "4K") \/ contains(title, "UHD")
        THEN <<"4K">> ELSE <<>>)
    \o (IF contains(title, "HDR") THEN <<"HDR">> ELSE <<>>)

(***************************************************************************)
(* extract_date: the first "(YYYY)" of the title, else the year of the     *)
(* wall clock at the time of the call (now_).                              *)
(***************************************************************************)
extract_date(title, now_) ==
    IF year_group(title) # "" THEN year_group(title) ELSE now_

(***************************************************************************)
(* extract_proper_title.  Of a topic document it reads                     *)
(*   pagetitle  the text of .ipsType_pagetitle / .ipsDataItem_title a,     *)
(*              "" when the document has neither,                          *)
(*   headings   the h1 and h2 elements in document order, [tag, text],     *)
(*   title      the text of <title>, "" when there is none.                *)
(***************************************************************************)
ui_elements ==
    <<"Sign In", "J.A.R.V.I.S.", "JARVIS", "By J.A.R.V.I.S.", "By Olan",
      "Login", "Register", "TamilMV Official Telegram Channel",
      "TamilMV Official", "1TamilMV.com">>

common_prefixes ==
    <<"TamilMV Official Telegram Channel :-",
      "TamilMV Official Telegram Channel:",
      "1TamilMV.com -">>

Lower == "abcdefghijklmnopqrstuvwxyz"
Upper == "ABCDEFGHIJKLMNOPQRSTUVWXYZ"

is_cased(c) == c # "" /\ (contains(Lower, c) \/ contains(Upper, c))

to_upper(c) == IF c # "" /\ contains(Lower, c) THEN ch(Upper, find(Lower, c)) ELSE c

to_lower(c) == IF c # "" /\ contains(Upper, c) THEN ch(Lower, find(Upper, c)) ELSE c

\* s.lower() from position i on
RECURSIVE lower_from(_, _)
lower_from(s, i) ==
    IF i > Len(s) THEN "" ELSE to_lower(ch(s, i)) \o lower_from(s, i + 1)

\* s.capitalize()
capitalize(s) == to_upper(ch(s, 1)) \o lower_from(s, 2)

\* s.title() from position i on: a cased character is upper case after an
\* uncased one and lower case after a cased one
RECURSIVE title_from(_, _)
title_from(s, i) ==
    IF i > Len(s) THEN ""
    ELSE (IF is_cased(ch(s, i - 1)) THEN to_lower(ch(s, i)) ELSE to_upper(ch(s, i)))
         \o title_from(s, i + 1)

\* s.replace('-', ' ') from position i on
RECURSIVE dashes_to_spaces(_, _)
dashes_to_spaces(s, i) ==
    IF i > Len(s) THEN ""
    ELSE (IF ch(s, i) = "-" THEN " " ELSE ch(s, i)) \o dashes_to_spaces(s, i + 1)

\* s.isdigit()
isdigit(s) == s # "" /\ \A i \in 1..Len(s) : ch(s, i) \in Digits

\* the last position of pat in s, 0 when absent
rfind(s, pat) ==
    LET hits == {i \in 1..Len(s) : at(s, i, pat)}
    IN  IF hits = {} THEN 0 ELSE CHOOSE i \in hits : \A j \in hits : i >= j

\* urlparse(url).path of an absolute URL without query or fragment
url_path(url) ==
    LET host == find(url, "://") + 3
        rest == slice_from(url, host)
    IN  IF find(url, "://") = 0 THEN url
        ELSE IF find(rest, "/") = 0 THEN ""
        ELSE slice_from(rest, find(rest, "/"))

\* re.search(r'([^(]+)\s*\((\d{4})\)', s); a result is [ok, name, year,
\* whole] with group 1, group 2 and group 0 as matched
movie_year_match(s) ==
    LET hits == {q \in parens(s) : stretch_start(s, q) < q /\ is_year_group(s, q)}
    IN  IF hits = {}
        THEN [ok |-> FALSE, name |-> "", year |-> "", whole |-> ""]
        ELSE LET q == CHOOSE i \in hits : \A j \in hits : i <= j
             IN  [ok |-> TRUE,
                  name |-> slice(s, stretch_start(s, q), q),
                  year |-> slice(s, q + 1, q + 5),
                  whole |-> slice(s, stretch_start(s, q), q + 6)]

\* re.sub(r'\s*[-|]\s*(?:<site>).*$', '', s) for the site names given
cut_site_suffix(s, sites) ==
    LET hits == {i \in 1..Len(s) :
                    LET j == skip_spaces(s, i)
                        k == skip_spaces(s, j + 1)
                    IN  /\ ch(s, j) \in {"-", "|"}
                        /\ \E site \in sites : at(s, k, site)}
    IN  IF hits = {} THEN s
        ELSE slice(s, 1, CHOOSE i \in hits : \A j \in hits : i <= j)

\* the title from the URL path of the known-noise branch (lines 94-106),
\* "" when the path gives none
noise_url_title(page_url) ==
    LET path == url_path(page_url)
        dash == find(path, "-")
        first == slice(path, 1, dash)
        kept == IF endswith(first, "0") \/ endswith(first, "/")
                THEN slice_from(path, dash + 1) ELSE path
        title == only({title_from(spaced, 1) : spaced \in {dashes_to_spaces(kept, 1)}})
    IN  IF /\ page_url # ""
           /\ (contains(path, "topic") \/ contains(path, "forums"))
           /\ dash > 0
           /\ Len(title) > 5
        THEN title ELSE ""

\* the first heading whose text holds "<name> (<year>)" with a name of more
\* than 3 characters gives that match, stripped; "" when there is none
RECURSIVE noise_heading(_, _)
noise_heading(headings, i) ==
    IF i > Len(headings) THEN ""
    ELSE LET m == only({movie_year_match(text) : text \in {strip(headings[i].text)}})
         IN  IF m.ok /\ Len(strip(m.name)) > 3 THEN strip(m.whole)
             ELSE noise_heading(headings, i + 1)

\* a known-noise branch that asks <title> before the headings
noise_title_doc_title_first(doc, page_url) ==
    LET title_text == only({cut_site_suffix(text, {"1TamilMV", "TamilMV"}) :
                               text \in {strip(doc.title)}})
    IN  IF Len(strip(doc.pagetitle)) > 5 THEN strip(doc.pagetitle)
        ELSE IF Len(title_text) > 5 THEN title_text
        ELSE IF noise_heading(doc.headings, 1) # "" THEN noise_heading(doc.headings, 1)
        ELSE IF noise_url_title(page_url) # "" THEN noise_url_title(page_url)
        ELSE "Unknown Title (See Details)"

\* lines 71-109: the title of a raw title that holds a UI element
noise_title(doc, page_url) ==
    LET title_text == only({cut_site_suffix(text, {"1TamilMV", "TamilMV"}) :
                               text \in {strip(doc.title)}})
    IN  IF Len(strip(doc.pagetitle)) > 5 THEN strip(doc.pagetitle)
        ELSE IF noise_heading(doc.headings, 1) # "" THEN noise_heading(doc.headings, 1)
        ELSE IF Len(title_text) > 5 THEN title_text
        ELSE IF noise_url_title(page_url) # "" THEN noise_url_title(page_url)
        ELSE "Unknown Title (See Details)"

\* lines 118-121: the first matching prefix is cut off
strip_prefix(full_title) ==
    LET matches(p) == startswith(full_title, p)
        hits == SelectSeq(common_prefixes, matches)
    IN  IF hits = <<>> THEN full_title
        ELSE strip(slice_from(full_title, Len(hits[1]) + 1))

\* soup.find('h1') or soup.find('h2'): the first h1, else the first h2
first_heading(doc) ==
    LET h1 == SelectSeq(doc.headings, LAMBDA h : h.tag = "h1")
    IN  IF h1 # <<>> THEN <<h1[1]>>
        ELSE IF doc.headings # <<>> THEN <<doc.headings[1]>>
        ELSE <<>>

\* lines 141-159: the title the document offers, "" when it offers none
page_title(doc) ==
    LET heading == first_heading(doc)
        m == IF heading = <<>> THEN movie_year_match("")
             ELSE only({movie_year_match(text) : text \in {strip(heading[1].text)}})
        title_text ==
            only({cut_site_suffix(cut, {"TamilMV"}) :
                     cut \in {only({cut_site_suffix(text, {"1TamilMV"}) :
                                       text \in {strip(doc.title)}})}})
    IN  IF m.ok THEN m.whole
        ELSE IF Len(title_text) > 5 THEN title_text
        ELSE ""

\* the end (exclusive) of the match of pattern number pat of lines 162-173
\* that starts at position i, 0 when it does not match there
match_end(pat, s, i) ==
    LET close(c, from) ==
            LET hits == {k \in from..Len(s) : ch(s, k) = c}
            IN  IF hits = {} THEN 0
                ELSE (CHOOSE k \in hits : \A j \in hits : k <= j) + 1
        to_end(ok) == IF ok THEN Len(s) + 1 ELSE 0
    IN  CASE pat = 1 ->     \* \[\d+p.*?\]
                LET d == skip_digits(s, i + 1)
                IN  IF ch(s, i) = "[" /\ d > i + 1 /\ ch(s, d) = "p"
                    THEN close("]", d + 1) ELSE 0
          [] pat = 2 ->     \* \(BluRay.*?\)
                IF at(s, i, "(BluRay") THEN close(")", i + 7) ELSE 0
          [] pat = 3 ->     \* \(WEB-DL.*?\)
                IF at(s, i, "(WEB-DL") THEN close(")", i + 7) ELSE 0
          [] pat = 4 ->     \* - \[.*?\]$
                to_end(at(s, i, "- [") /\ Len(s) >= i + 3 /\ ch(s, Len(s)) = "]")
          [] pat = 5 ->     \* \s+-\s+\d+(\.\d+)?GB.*
                LET j == skip_spaces(s, i)
                    k == skip_spaces(s, j + 1)
                    d == skip_digits(s, k)
                    f == skip_digits(s, d + 1)
                IN  to_end(/\ j > i /\ ch(s, j) = "-" /\ k > j + 1 /\ d > k
                           /\ \/ at(s, d, "GB")
                              \/ ch(s, d) = "." /\ f > d + 1 /\ at(s, f, "GB"))
          [] pat = 6 -> to_end(at(s, i, "WEB-DL"))      \* WEB-DL.*$
          [] pat = 7 -> to_end(at(s, i, "BluRay"))      \* BluRay.*$
          [] pat = 8 ->     \* \s+\[.*?\]$
                LET j == skip_spaces(s, i)
                IN  to_end(j > i /\ ch(s, j) = "[" /\ Len(s) >= j + 1
                           /\ ch(s, Len(s)) = "]")
          [] pat = 9 -> to_end(at(s, i, "AVC"))         \* AVC.*$
          [] pat = 10 -> to_end(at(s, i, "HEVC"))       \* HEVC.*$

\* re.sub(pattern, '', s) from position i on
RECURSIVE re_sub(_, _, _)
re_sub(pat, s, i) ==
    IF i > Len(s) THEN ""
    ELSE IF match_end(pat, s, i) > 0 THEN re_sub(pat, s, match_end(pat, s, i))
    ELSE ch(s, i) \o re_sub(pat, s, i + 1)

\* lines 175-177: every pattern in turn, stripping after each
RECURSIVE strip_technical(_, _)
strip_technical(title, pat) ==
    IF pat > 10 THEN title
    ELSE only({strip_technical(t, pat + 1) : t \in {strip(re_sub(pat, title, 1))}})

\* the title from the URL of the generic stage (lines 182-195), "" when
\* the URL gives none
generic_url_title(page_url) ==
    LET path == url_path(page_url)
        last == slice_from(path, rfind(path, "/") + 1)
        dash == find(last, "-")
        kept == IF isdigit(slice(last, 1, dash)) THEN slice_from(last, dash + 1)
                ELSE last
        possible_title == dashes_to_spaces(kept, 1)
    IN  IF page_url # "" /\ dash > 0 /\ Len(possible_title) > 5
        THEN only({capitalize(t) : t \in {possible_title}}) ELSE ""

\* lines 161-204
generic_title(full_title, page_url) ==
    LET result(title) ==
            LET is_prefix(p) == p = title
                in_title(p) == contains(title, p)
            IN  IF title = "" \/ Len(title) < 5
                   \/ SelectSeq(common_prefixes, is_prefix) # <<>>
                THEN IF generic_url_title(page_url) # ""
                     THEN generic_url_title(page_url)
                     ELSE IF SelectSeq(common_prefixes, in_title) # <<>>
                     THEN "Movie Title (See Details)"
                     ELSE full_title
                ELSE title
    IN  only({result(title) : title \in {strip_technical(full_title, 1)}})

\* lines 123-204: the title of a raw title without UI element, after its
\* prefix was cut off
\* the first of the stages of lines 123-204 that gives a title, for the
\* matches tv and movie of the two title patterns, the title page that the
\* document offers and the title generic that stripping leaves
first_title(tv, movie, page, generic) ==
    IF tv.ok
    THEN strip(tv.show) \o " (S" \o tv.season \o "E" \o tv.episode \o ")"
    ELSE IF movie.ok /\ Len(strip(movie.name)) > 3
    THEN strip(movie.name) \o " (" \o movie.year \o ")"
    ELSE IF page # "" THEN page
    ELSE generic

content_title(full_title, doc, page_url) ==
    first_title(tv_match(full_title), movie_year_match(full_title),
                page_title(doc), generic_title(full_title, page_url))

extract_proper_title(full_title, doc, page_url) ==
    LET is_in(ui) == contains(full_title, ui)
    IN  IF SelectSeq(ui_elements, is_in) # <<>> THEN noise_title(doc, page_url)
        ELSE only({content_title(stripped, doc, page_url) :
                      stripped \in {strip_prefix(full_title)}})

\* find_better_image: the first usable <img> is resolved against dom
find_better_image_raises(doc) == urljoin_raises(doc.img)

find_better_image(doc, dom_) == urljoin(dom_, doc.img)

(***************************************************************************)
(* create_content_entry: appends one entry, unless find_better_image's     *)
(* urljoin raises before the append.  A result is [raised, results].       *)
(***************************************************************************)
create_content_entry(doc, title, magnet, link, dom_, res) ==
    IF find_better_image_raises(doc)
    THEN [raised |-> TRUE, results |-> res]
    ELSE [raised |-> FALSE,
          results |-> Append(res,
              [title |-> title,
               clean_title |-> extract_proper_title(title, doc, link),
               magnet |-> magnet,
               link |-> link,
               image |-> find_better_image(doc, dom_)])]

\* the magnets of a document: anchors whose href starts with "magnet:?"
magnets_of(doc) == SelectSeq(doc.anchors, startswith_magnet)

RECURSIVE section_loop(_, _, _, _, _, _, _, _)
\* the loop of lines 402-410 after the body of one iteration gave c: an
\* exception ends it, otherwise it goes on from index i
section_loop_after(c, doc, title, link, dom_, magnets, quality_sections, i) ==
    IF c.raised THEN c
    ELSE section_loop(doc, title, link, dom_, magnets, quality_sections, i, c.results)

\* lines 402-410: for i, magnet in enumerate(magnets), from index i (1-based)
section_loop(doc, title, link, dom_, magnets, quality_sections, i, res) ==
    IF i > Len(magnets) THEN [raised |-> FALSE, results |-> res]
    ELSE IF i <= Len(quality_sections) /\ ~(quality_sections[i] # ""
                                             /\ Len(quality_sections[i]) > 5)
    THEN section_loop(doc, title, link, dom_, magnets, quality_sections, i + 1, res)
    ELSE section_loop_after(
             create_content_entry(doc,
                                  IF i <= Len(quality_sections)
                                  THEN quality_sections[i] ELSE title,
                                  magnets[i], link, dom_, res),
             doc, title, link, dom_, magnets, quality_sections, i + 1)

RECURSIVE title_loop(_, _, _, _, _, _, _)
\* the loop of lines 413-414 after the body of one iteration gave c
title_loop_after(c, doc, title, link, dom_, magnets, i) ==
    IF c.raised THEN c
    ELSE title_loop(doc, title, link, dom_, magnets, i, c.results)

\* lines 413-414: for magnet in magnets, every magnet under the topic title
title_loop(doc, title, link, dom_, magnets, i, res) ==
    IF i > Len(magnets) THEN [raised |-> FALSE, results |-> res]
    ELSE title_loop_after(
             create_content_entry(doc, title, magnets[i], link, dom_, res),
             doc, title, link, dom_, magnets, i + 1)

process_topic_page(doc, title, link, dom_, res) ==
    LET magnets == magnets_of(doc)
        quality_sections == doc.quality_sections
    IN  IF Len(magnets) > 1
        THEN IF Len(quality_sections) >= Len(magnets)
             THEN section_loop(doc, title, link, dom_, magnets, quality_sections, 1, res)
             ELSE title_loop(doc, title, link, dom_, magnets, 1, res)
        ELSE IF Len(magnets) = 1
        THEN create_content_entry(doc, title, magnets[1], link, dom_, res)
        ELSE [raised |-> FALSE, results |-> res]

(***************************************************************************)
(* remove_duplicates.  unique_items is a dict: it keeps its keys in        *)
(* insertion order and an assignment to a present key keeps the key's      *)
(* place, so it is a sequence of entries with distinct magnets.  The       *)
(* similar_titles pass (lines 924-933) computes a value nobody reads.      *)
(***************************************************************************)
\* a lookup that compares with the entry inserted last only
index_of_last_only(unique_items, magnet_link) ==
    IF Len(unique_items) > 0 /\ unique_items[Len(unique_items)].magnet = magnet_link
    THEN Len(unique_items)
    ELSE 0

\* the index of magnet_link's entry in unique_items, 0 when absent
index_of(unique_items, magnet_link) ==
    IF \E i \in 1..Len(unique_items) : unique_items[i].magnet = magnet_link
    THEN CHOOSE i \in 1..Len(unique_items) : unique_items[i].magnet = magnet_link
    ELSE 0

\* an iteration that never replaces the entry it saw first
dedup_step_keep_first(unique_items, item) ==
    IF index_of(unique_items, item.magnet) = 0
    THEN Append(unique_items, item)
    ELSE unique_items

\* an iteration that replaces on ">=": among equally long titles the last wins
dedup_step_ge(unique_items, item) ==
    LET k == index_of(unique_items, item.magnet)
    IN  IF k = 0 THEN Append(unique_items, item)
        ELSE IF Len(item.clean_title) >= Len(unique_items[k].clean_title)
        THEN [unique_items EXCEPT ![k] = item]
        ELSE unique_items

\* an iteration that, when it replaces, drops the old entry and puts the new
\* one at the end
dedup_step_reinsert(unique_items, item) ==
    LET k == index_of(unique_items, item.magnet)
    IN  IF k = 0 THEN Append(unique_items, item)
        ELSE IF Len(item.clean_title) > Len(unique_items[k].clean_title)
        THEN Append(SubSeq(unique_items, 1, k - 1)
                        \o SubSeq(unique_items, k + 1, Len(unique_items)),
                    item)
        ELSE unique_items

\* an iteration that keys the entries by their topic link
dedup_step_by_link(unique_items, item) ==
    LET hits == {i \in 1..Len(unique_items) : unique_items[i].link = item.link}
    IN  IF hits = {} THEN Append(unique_items, item)
        ELSE IF Len(item.clean_title) > Len(unique_items[CHOOSE i \in hits : TRUE].clean_title)
        THEN [unique_items EXCEPT ![CHOOSE i \in hits : TRUE] = item]
        ELSE unique_items

\* lines 913-922: one iteration of "for item in items"
dedup_step(unique_items, item) ==
    LET k == index_of(unique_items, item.magnet)
    IN  IF k = 0 THEN Append(unique_items, item)
        ELSE IF Len(item.clean_title) > Len(unique_items[k].clean_title)
        THEN [unique_items EXCEPT ![k] = item]
        ELSE unique_items

RECURSIVE dedup_fold(_, _, _)
dedup_fold(unique_items, its, i) ==
    IF i > Len(its) THEN unique_items
    ELSE dedup_fold(dedup_step(unique_items, its[i]), its, i + 1)

remove_duplicates(its) == dedup_fold(<<>>, its, 1)

(***************************************************************************)
(* Anchor selection.                                                       *)
(***************************************************************************)
\* line 342: the homepage anchors kept as potential topics
is_potential_topic(link) ==
    /\ link.text # ""
    /\ link.href # ""
    /\ ~startswith_magnet_scheme(link.href)
    /\ contains_slash(link.href)
    /\ Len(link.text) > 10

\* lines 473-474: the homepage anchors taken as TV categories
is_tv_category(link) ==
    /\ link.href # ""
    /\ (contains_tv_keyword(link.href) \/ contains_tv_keyword(link.text))

\* a homepage pass that forgets the [:MAX_ENTRIES] slice
capped_topics_all(topics) == topics

\* potential_topics[:MAX_ENTRIES]
capped_topics(topics) ==
    SubSeq(topics, 1, IF Len(topics) < MAX_ENTRIES THEN Len(topics) ELSE MAX_ENTRIES)

RECURSIVE category_loop(_, _, _, _)
\* lines 484-492: the topic links of one category page, appended to res
\* until a urljoin raises
category_loop(topic_links, dom_, i, res) ==
    IF i > Len(topic_links) THEN [raised |-> FALSE, results |-> res]
    ELSE IF urljoin_raises(topic_links[i].href)
    THEN [raised |-> TRUE, results |-> res]
    ELSE LET topic_title == topic_links[i].text
             topic_href == urljoin(dom_, topic_links[i].href)
         IN  IF topic_title # "" /\ topic_href # ""
             THEN category_loop(topic_links, dom_, i + 1,
                                Append(res, [title |-> topic_title, link |-> topic_href,
                                             href |-> topic_links[i].href]))
             ELSE category_loop(topic_links, dom_, i + 1, res)

(***************************************************************************)
(* What process_topic_page can append for a topic (its title, the href it  *)
(* was listed under, the mirror), over every document the topic's page may *)
(* hold.  process_topic_page only appends to results, so its effect on a   *)
(* non-empty results is results followed by its effect on the empty list.  *)
(***************************************************************************)
TopicRefs ==
    {<<a.text, a.href, d>> : a \in (HomeAnchors \cup CategoryAnchors),
                             d \in {MIRRORS[i] : i \in 1..Len(MIRRORS)}}

\* The topic pages of a run carry no h3/h4/strong element; the association
\* of magnets with such headings is examined on process_topic_page alone
\* (SpecTopic), over all of Docs.
TopicPages == {doc \in Docs : doc.quality_sections = <<>>}

topic_outcomes ==
    [t \in TopicRefs |->
        {process_topic_page(doc, t[1], urljoin(t[3], t[2]), t[3], <<>>) : doc \in TopicPages}]

\* the potential_topics a homepage document can yield (lines 338-343)
homepage_topic_lists == {SelectSeq(page, is_potential_topic) : page \in HomePages}

\* the category anchors a homepage document can yield (lines 469-474)
homepage_tv_lists == {SelectSeq(page, is_tv_category) : page \in HomePages}

IsPrefix(s, t) == Len(s) <= Len(t) /\ SubSeq(t, 1, Len(s)) = s

(***************************************************************************)
(* A run of main().                                                        *)
(***************************************************************************)
Idle ==
    /\ mi = 1
    /\ r = None
    /\ probes = [i \in 1..NumMirrors |-> 0]
    /\ potential_topics = <<>>
    /\ hi = 0
    /\ tv_links = <<>>
    /\ ci = 0
    /\ tv_results = <<>>
    /\ ti = 0
    /\ items = <<>>
    /\ saved = <<>>
    /\ fetched = 0
    /\ finished = 0
    /\ topic_failed = FALSE
    /\ cat_failed = 0
    /\ dedup_runs = 0
    /\ raised = FALSE
    /\ fragment = ""
    /\ topic_url = ""
    /\ now = ""

Init ==
    /\ pc = "get_domain"
    /\ dom = None
    /\ results = <<>>
    /\ soup = None
    /\ before = <<>>
    /\ Idle

\* get_domain, line 35-36: the next mirror is requested
ProbeMirror ==
    /\ pc = "get_domain"
    /\ \E resp \in Responses : r' = resp
    /\ probes' = [probes EXCEPT ![mi] = @ + 1]
    /\ pc' = "check_domain"
    /\ UNCHANGED <<mi, dom, potential_topics, hi, tv_links, ci, tv_results, ti,
                   results, items, saved, fetched, finished, topic_failed,
                   cat_failed, dedup_runs, soup, before, raised,
                   fragment, topic_url, now>>

\* check_domain returns; get_domain returns the mirror, moves on, or raises
CheckDomainReturn ==
    /\ pc = "check_domain"
    /\ IF check_domain(r)
       THEN /\ dom' = MIRRORS[mi]
            /\ pc' = "fetch_homepage"
            /\ mi' = mi
       ELSE IF mi < Len(MIRRORS)
       THEN /\ mi' = mi + 1
            /\ pc' = "get_domain"
            /\ dom' = dom
       ELSE /\ pc' = "error"      \* RuntimeError("no mirror alive") leaves main
            /\ UNCHANGED <<mi, dom>>
    /\ r' = None
    /\ UNCHANGED <<probes, potential_topics, hi, tv_links, ci, tv_results, ti,
                   results, items, saved, fetched, finished, topic_failed,
                   cat_failed, dedup_runs, soup, before, raised,
                   fragment, topic_url, now>>

\* a homepage fetch outside the try block: its exception leaves main
FetchHomepage_uncaught ==
    /\ pc = "fetch_homepage"
    /\ \/ /\ pc' = "error"
          /\ UNCHANGED <<potential_topics, hi>>
       \/ \E topics \in homepage_topic_lists :
            /\ potential_topics' = topics
            /\ hi' = 1
            /\ pc' = "home_topics"
    /\ UNCHANGED <<mi, r, probes, dom, tv_links, ci, tv_results, ti, results,
                   items, saved, fetched, finished, topic_failed, cat_failed,
                   dedup_runs, soup, before, raised,
                   fragment, topic_url, now>>

\* fetch_magnets, lines 330-345: the homepage is fetched and scanned
FetchHomepage ==
    /\ pc = "fetch_homepage"
    /\ \/ /\ pc' = "remove_duplicates"     \* line 381: caught, results returned
          /\ UNCHANGED <<potential_topics, hi>>
       \/ \E topics \in homepage_topic_lists :
            /\ potential_topics' = topics
            /\ hi' = 1
            /\ pc' = "home_topics"
    /\ UNCHANGED <<mi, r, probes, dom, tv_links, ci, tv_results, ti, results,
                   items, saved, fetched, finished, topic_failed, cat_failed,
                   dedup_runs, soup, before, raised,
                   fragment, topic_url, now>>

\* lines 348-354: the next homepage topic: its link is resolved, its page requested
HomeTopicFetch ==
    /\ pc = "home_topics"
    /\ hi <= Len(capped_topics(potential_topics))
    /\ LET topic == capped_topics(potential_topics)[hi]
       IN  IF urljoin_raises(topic.href)
           THEN \* line 351 is outside the inner try: line 381 catches
                /\ pc' = "remove_duplicates"
                /\ topic_failed' = TRUE
                /\ UNCHANGED <<hi, fetched, finished>>
           ELSE /\ fetched' = fetched + 1
                /\ \/ /\ pc' = "home_process"
                      /\ UNCHANGED <<hi, finished, topic_failed>>
                   \/ /\ pc' = "home_topics"     \* line 360: fetch failed, skipped
                      /\ hi' = hi + 1
                      /\ finished' = finished + 1
                      /\ topic_failed' = TRUE
    /\ UNCHANGED <<mi, r, probes, dom, potential_topics, tv_links, ci, tv_results,
                   ti, results, items, saved, cat_failed, dedup_runs, soup, before, raised,
                   fragment, topic_url, now>>

\* lines 355-361: the fetched topic page is parsed and processed
HomeTopicProcess ==
    /\ pc = "home_process"
    /\ LET topic == capped_topics(potential_topics)[hi]
       IN  \E out \in topic_outcomes[<<topic.text, topic.href, dom>>] :
                 /\ Len(results) + Len(out.results) <= MaxResults
                 /\ results' = results \o out.results
                 /\ topic_failed' = (topic_failed \/ out.raised)
    /\ hi' = hi + 1
    /\ finished' = finished + 1
    /\ pc' = "home_topics"
    /\ UNCHANGED <<mi, r, probes, dom, potential_topics, tv_links, ci, tv_results,
                   ti, items, saved, fetched, cat_failed, dedup_runs, soup, before, raised,
                   fragment, topic_url, now>>

\* line 364: the homepage pass is over
HomeTopicsDone ==
    /\ pc = "home_topics"
    /\ hi > Len(capped_topics(potential_topics))
    /\ pc' = IF DEEP_CRAWL_TV THEN "find_tv_show_pages" ELSE "remove_duplicates"
    /\ UNCHANGED <<mi, r, probes, dom, potential_topics, hi, tv_links, ci,
                   tv_results, ti, results, items, saved, fetched, finished,
                   topic_failed, cat_failed, dedup_runs, soup, before, raised,
                   fragment, topic_url, now>>

\* find_tv_show_pages, lines 463-474: the homepage is fetched again
FindTvShowPages ==
    /\ pc = "find_tv_show_pages"
    /\ \/ /\ pc' = "tv_topics"             \* line 495: caught, [] returned
          /\ ti' = 1
          /\ UNCHANGED <<tv_links, ci>>
       \/ \E links \in homepage_tv_lists :
            /\ tv_links' = links
            /\ ci' = 1
            /\ pc' = "tv_categories"
            /\ ti' = ti
    /\ UNCHANGED <<mi, r, probes, dom, potential_topics, hi, tv_results,
                   results, items, saved, fetched, finished, topic_failed,
                   cat_failed, dedup_runs, soup, before, raised,
                   fragment, topic_url, now>>

\* a category loop without its own try: a failing page ends the discovery
TvCategory_abort ==
    /\ pc = "tv_categories"
    /\ ci <= Len(tv_links)
    /\ \/ /\ cat_failed' = ci
          /\ pc' = "tv_topics"
          /\ ti' = 1
          /\ UNCHANGED <<tv_results, ci>>
       \/ \E page \in CategoryPages :
            LET out == category_loop(page, dom, 1, tv_results)
            IN  /\ Len(out.results) <= MaxTvTopics
                /\ tv_results' = out.results
                /\ cat_failed' = IF out.raised THEN ci ELSE cat_failed
                /\ IF out.raised
                   THEN pc' = "tv_topics" /\ ti' = 1 /\ ci' = ci
                   ELSE pc' = pc /\ ti' = ti /\ ci' = ci + 1
    /\ UNCHANGED <<mi, r, probes, dom, potential_topics, hi, tv_links,
                   results, items, saved, fetched, finished, topic_failed,
                   dedup_runs, soup, before, raised,
                   fragment, topic_url, now>>

\* lines 475-494: one category page; any exception of the block skips the page
TvCategory ==
    /\ pc = "tv_categories"
    /\ ci <= Len(tv_links)
    /\ \/ /\ cat_failed' = ci              \* scraper.get raised
          /\ UNCHANGED tv_results
       \/ \E page \in CategoryPages :
            LET out == category_loop(page, dom, 1, tv_results)
            IN  /\ Len(out.results) <= MaxTvTopics
                /\ tv_results' = out.results
                /\ cat_failed' = IF out.raised THEN ci ELSE cat_failed
    /\ ci' = ci + 1
    /\ UNCHANGED <<pc, mi, r, probes, dom, potential_topics, hi, tv_links, ti,
                   results, items, saved, fetched, finished, topic_failed,
                   dedup_runs, soup, before, raised,
                   fragment, topic_url, now>>

\* line 498: find_tv_show_pages returns its results
TvCategoriesDone ==
    /\ pc = "tv_categories"
    /\ ci > Len(tv_links)
    /\ pc' = "tv_topics"
    /\ ti' = 1
    /\ tv_links' = <<>>
    /\ ci' = 0
    /\ cat_failed' = 0
    /\ UNCHANGED <<mi, r, probes, dom, potential_topics, hi, tv_results,
                   results, items, saved, fetched, finished, topic_failed,
                   dedup_runs, soup, before, raised,
                   fragment, topic_url, now>>

\* lines 369-372: the next TV topic page is requested
TvTopicFetch ==
    /\ pc = "tv_topics"
    /\ ti <= Len(tv_results)
    /\ fetched' = fetched + 1
    /\ \/ /\ pc' = "tv_process"
          /\ UNCHANGED <<ti, finished, topic_failed>>
       \/ /\ pc' = "tv_topics"             \* line 378: fetch failed, skipped
          /\ ti' = ti + 1
          /\ finished' = finished + 1
          /\ topic_failed' = TRUE
    /\ UNCHANGED <<mi, r, probes, dom, potential_topics, hi, tv_links, ci,
                   tv_results, results, items, saved, cat_failed, dedup_runs,
                   soup, before, raised,
                   fragment, topic_url, now>>

\* lines 373-379: the fetched TV topic page is parsed and processed
TvTopicProcess ==
    /\ pc = "tv_process"
    /\ LET tv_topic == tv_results[ti]
       IN  \E out \in topic_outcomes[<<tv_topic.title, tv_topic.href, dom>>] :
                 /\ Len(results) + Len(out.results) <= MaxResults
                 /\ results' = results \o out.results
                 /\ topic_failed' = (topic_failed \/ out.raised)
    /\ ti' = ti + 1
    /\ finished' = finished + 1
    /\ pc' = "tv_topics"
    /\ UNCHANGED <<mi, r, probes, dom, potential_topics, hi, tv_links, ci,
                   tv_results, items, saved, fetched, cat_failed, dedup_runs,
                   soup, before, raised,
                   fragment, topic_url, now>>

\* a main that hands the list of fetch_magnets straight to save_data
TvTopicsDone_to_save ==
    /\ pc = "tv_topics"
    /\ ti > Len(tv_results)
    /\ pc' = "save_data"
    /\ items' = results
    /\ UNCHANGED <<mi, r, probes, dom, potential_topics, hi, tv_links, ci,
                   tv_results, ti, results, saved, fetched, finished,
                   topic_failed, cat_failed, dedup_runs, soup, before, raised,
                   fragment, topic_url, now>>

\* line 384: the episodic pass is over, fetch_magnets returns
TvTopicsDone ==
    /\ pc = "tv_topics"
    /\ ti > Len(tv_results)
    /\ pc' = "remove_duplicates"
    /\ UNCHANGED <<mi, r, probes, dom, potential_topics, hi, tv_links, ci,
                   tv_results, ti, results, items, saved, fetched, finished,
                   topic_failed, cat_failed, dedup_runs, soup, before, raised,
                   fragment, topic_url, now>>

\* main, line 960
RemoveDuplicates ==
    /\ pc = "remove_duplicates"
    /\ items' = remove_duplicates(results)
    /\ dedup_runs' = dedup_runs + 1
    /\ pc' = "save_data"
    /\ UNCHANGED <<mi, r, probes, dom, potential_topics, hi, tv_links, ci,
                   tv_results, ti, results, saved, fetched, finished,
                   topic_failed, cat_failed, soup, before, raised,
                   fragment, topic_url, now>>

\* main, line 963
SaveData ==
    /\ pc = "save_data"
    /\ saved' = Append(saved, items)
    /\ pc' = "done"
    /\ UNCHANGED <<mi, r, probes, dom, potential_topics, hi, tv_links, ci,
                   tv_results, ti, results, items, fetched, finished,
                   topic_failed, cat_failed, dedup_runs, soup, before, raised,
                   fragment, topic_url, now>>

Next ==
    \/ ProbeMirror
    \/ CheckDomainReturn
    \/ FetchHomepage
    \/ HomeTopicFetch
    \/ HomeTopicProcess
    \/ HomeTopicsDone
    \/ FindTvShowPages
    \/ TvCategory
    \/ TvCategoriesDone
    \/ TvTopicFetch
    \/ TvTopicProcess
    \/ TvTopicsDone
    \/ RemoveDuplicates
    \/ SaveData

Spec == Init /\ [][Next]_vars

(***************************************************************************)
(* process_topic_page on one document: the document and the list it        *)
(* appends to are drawn in the initial state.                              *)
(***************************************************************************)
TopicLink == urljoin(MIRRORS[1], "/topic/1-leo")

PriorEntry ==
    [title |-> TvTopicText, clean_title |-> TvTopicText, magnet |-> MagnetB,
     link |-> urljoin(MIRRORS[1], "/topic/2-office"),
     image |-> urljoin(MIRRORS[1], "/poster.jpg")]

InitTopic ==
    /\ pc = "process_topic_page"
    /\ dom = MIRRORS[1]
    /\ soup \in Docs
    /\ before \in {<<>>, <<PriorEntry>>}
    /\ results = before
    /\ Idle

ProcessTopicPage ==
    /\ pc = "process_topic_page"
    /\ \E out \in {process_topic_page(soup, TopicText, TopicLink, dom, results)} :
          /\ results' = out.results
          /\ raised' = out.raised
    /\ pc' = "processed"
    /\ UNCHANGED <<mi, r, probes, dom, potential_topics, hi, tv_links, ci,
                   tv_results, ti, items, saved, fetched, finished,
                   topic_failed, cat_failed, dedup_runs, soup, before,
                   fragment, topic_url, now>>

NextTopic == ProcessTopicPage

SpecTopic == InitTopic /\ [][NextTopic]_vars

(***************************************************************************)
(* main from the return of fetch_magnets on: remove_duplicates and         *)
(* save_data on a list of entries drawn in the initial state.              *)
(***************************************************************************)
DedupEntries ==
    [title : {TopicText},
     clean_title : {"1080p HD", TopicText, "Leo (2023) Tamil Movie"},
     magnet : {MagnetA, MagnetB},
     link : {TopicLink, urljoin(MIRRORS[1], "/topic/2-office")},
     image : {urljoin(MIRRORS[1], "/poster.jpg")}]

InitDedup ==
    /\ pc = "remove_duplicates"
    /\ dom = MIRRORS[1]
    /\ soup = None
    /\ before = <<>>
    /\ results \in SeqsUpTo(DedupEntries, MaxItems)
    /\ Idle

NextDedup == RemoveDuplicates \/ SaveData

SpecDedup == InitDedup /\ [][NextDedup]_vars

(***************************************************************************)
(* create_content_entry on one raw title: the title, the document, the     *)
(* link and the wall-clock year are drawn in the initial state.            *)
(***************************************************************************)
\* lines 442-457: the dict that is appended, without its category and its
\* "added" time stamp
entry_dict(title, clean_title, magnet, link, img_src, tv_info, languages, qualities, date) ==
    [title |-> title,
     clean_title |-> clean_title,
     magnet |-> magnet,
     link |-> link,
     image |-> img_src,
     languages |-> languages,
     qualities |-> qualities,
     release_date |-> IF tv_info.year # "" THEN tv_info.year ELSE date,
     is_tv_show |-> tv_info.is_tv_show,
     show_name |-> tv_info.show_name,
     season |-> tv_info.season,
     episode |-> tv_info.episode]

\* a create_content_entry that reads the languages off the clean title
content_entry_clean_languages(doc, title, magnet, link, dom_, now_) ==
    entry_dict(title, extract_proper_title(title, doc, link), magnet, link,
               find_better_image(doc, dom_), extract_tv_info(title),
               extract_languages(extract_proper_title(title, doc, link)),
               extract_quality(title), extract_date(title, now_))

\* lines 421-457: the entry create_content_entry appends
content_entry(doc, title, magnet, link, dom_, now_) ==
    entry_dict(title, extract_proper_title(title, doc, link), magnet, link,
               find_better_image(doc, dom_), extract_tv_info(title),
               extract_languages(title), extract_quality(title),
               extract_date(title, now_))

\* ' '.join(words) from word i on
RECURSIVE join(_, _)
join(words, i) ==
    IF i > Len(words) THEN ""
    ELSE IF i = Len(words) THEN words[i]
    ELSE words[i] \o " " \o join(words, i + 1)

\* the titles of one to n words of a vocabulary
sentences(Words, n) == {join(ws, 1) : ws \in SeqsUpTo(Words, n) \ {<<>>}}

LangWords == {"Leo", "Tamil", "TAM", "Hindi"}
QualityWords == {"1080p", "720p", "480p", "2160p", "4K", "UHD", "HDR"}
\* titles of quality markers: every title of up to MaxMarkers markers, and
\* titles with three of them
QualityTitles ==
    sentences(QualityWords, MaxMarkers)
    \cup {"2160p 4K UHD", "HDR 2160p UHD", "HDR UHD 1080p", "480p 720p 1080p"}

StripWords == {"Leo", "Tamil", "WEB-DL", "[1080p]"}

EpisodicTitles ==
    {show \o year \o season \o ep \o tail :
        show \in {"Office", "JARVIS Office"},
        year \in {"", " (2025)"},
        season \in {"", " S1", " S01"},
        ep \in {"", " EP(37-40)", " EP 5", "E05"},
        tail \in {"", " Tamil"}}

NoiseTitles == {"JARVIS", "Login Leo", "1TamilMV.com - Leo (2023)"}

\* the year of the wall clock
Years == {"2024", "2026"}

PlainDoc ==
    [anchors |-> <<MagnetA>>, quality_sections |-> <<>>, img |-> "/poster.jpg",
     title |-> "", pagetitle |-> "", headings |-> <<>>]

TitledDoc == [PlainDoc EXCEPT !.title = "Leo (2023) Tamil Movie"]

HeadedDoc == [PlainDoc EXCEPT !.headings = <<[tag |-> "h1", text |-> "Jailer (2023)"]>>]

HeadingElems ==
    {[tag |-> "h1", text |-> "Leo (2023)"],
     [tag |-> "h2", text |-> "Jailer (2023) Tamil"]}

NoiseDocs ==
    [anchors : {<<MagnetA>>}, quality_sections : {<<>>}, img : {"/poster.jpg"},
     title : {"", "Leo", "Leo Tamil - 1TamilMV.com"},
     pagetitle : {"", "Leo", "Jailer Tamil"},
     headings : SeqsUpTo(HeadingElems, MaxHeadings)]

TopicLinks ==
    {TopicLink, urljoin(MIRRORS[1], "/topic/10-leo-tamil"),
     urljoin(MIRRORS[1], "/index.php")}

\* the calls of create_content_entry considered, in groups: every title of
\* a group with every document, link and wall-clock year of the group
EntryGroups ==
    {[titles |-> sentences(LangWords, MaxWords) \cup QualityTitles,
      docs |-> {PlainDoc}, links |-> {TopicLink}, nows |-> {"2026"}],
     [titles |-> EpisodicTitles, docs |-> {PlainDoc, TitledDoc},
      links |-> {TopicLink}, nows |-> Years],
     [titles |-> NoiseTitles, docs |-> NoiseDocs, links |-> TopicLinks,
      nows |-> {"2026"}],
     [titles |-> sentences(StripWords, MaxWords),
      docs |-> {PlainDoc},
      links |-> {TopicLink, urljoin(MIRRORS[1], "/index.php")},
      nows |-> {"2026"}],
     [titles |-> sentences(StripWords, MaxWords),
      docs |-> {TitledDoc, HeadedDoc}, links |-> {TopicLink},
      nows |-> {"2026"}]}

\* the calls as records [title, doc, link, now]
EntryInputs ==
    UNION {[title : g.titles, doc : g.docs, link : g.links, now : g.nows] :
              g \in EntryGroups}

\* the entry of every call considered, as an explicit table (@@ makes the
\* function explicit, so that each call is computed once)
entry_of ==
    [inp \in EntryInputs |->
        content_entry(inp.doc, inp.title, MagnetA, inp.link, MIRRORS[1], inp.now)]
    @@ <<>>

InitEntry ==
    /\ pc = "create_content_entry"
    /\ dom = MIRRORS[1]
    /\ \E inp \in EntryInputs :
          /\ fragment = inp.title
          /\ soup = inp.doc
          /\ topic_url = inp.link
          /\ now = inp.now
    /\ before = <<>>
    /\ results = <<>>
    /\ mi = 1
    /\ r = None
    /\ probes = [i \in 1..NumMirrors |-> 0]
    /\ potential_topics = <<>>
    /\ hi = 0
    /\ tv_links = <<>>
    /\ ci = 0
    /\ tv_results = <<>>
    /\ ti = 0
    /\ items = <<>>
    /\ saved = <<>>
    /\ fetched = 0
    /\ finished = 0
    /\ topic_failed = FALSE
    /\ cat_failed = 0
    /\ dedup_runs = 0
    /\ raised = FALSE

CreateContentEntry ==
    /\ pc = "create_content_entry"
    /\ ~find_better_image_raises(soup)
    /\ results' = Append(results,
                         entry_of[[title |-> fragment, doc |-> soup,
                                   link |-> topic_url, now |-> now]])
    /\ pc' = "created"
    /\ UNCHANGED <<mi, r, probes, dom, potential_topics, hi, tv_links, ci,
                   tv_results, ti, items, saved, fetched, finished,
                   topic_failed, cat_failed, dedup_runs, soup, before, raised,
                   fragment, topic_url, now>>

NextEntry == CreateContentEntry

SpecEntry == InitEntry /\ [][NextEntry]_vars

(***************************************************************************)
(* Properties.                                                             *)
(***************************************************************************)
magnet_set(entries) == {entries[i].magnet : i \in 1..Len(entries)}

unique_magnets(entries) ==
    \A i, j \in 1..Len(entries) : entries[i].magnet = entries[j].magnet => i = j

\* C1: remove_duplicates returns exactly one entry per distinct magnet of its
\* input (no two output entries share a magnet, every input magnet occurs in
\* the output), and the catalog main hands to save_data is that output.
C1_Theorem ==
    /\ pc \in {"save_data", "done"} =>
         /\ unique_magnets(items)
         /\ magnet_set(items) = magnet_set(results)
    /\ pc = "done" => saved = <<items>> /\ unique_magnets(saved[1])

C1_Witness ==
    /\ pc = "done"
    /\ Len(results) = 3
    /\ results[1].magnet = results[3].magnet
    /\ results[2].magnet # results[1].magnet
    /\ Len(saved[1]) = 2

\* the first index, among the entries of magnet m, of an entry whose
\* clean_title is longest
first_longest(entries, m) ==
    LET idx == {i \in 1..Len(entries) : entries[i].magnet = m}
        best == {i \in idx : \A j \in idx :
                    Len(entries[i].clean_title) >= Len(entries[j].clean_title)}
    IN  CHOOSE i \in best : \A j \in best : i <= j

\* C2: for every magnet the entry remove_duplicates keeps is the input entry
\* with the longest clean_title among the entries of that magnet, and the
\* first such entry in input order when several tie.
C2_Theorem ==
    pc = "save_data" =>
        /\ \A m \in magnet_set(results) : \E k \in 1..Len(items) : items[k].magnet = m
        /\ \A k \in 1..Len(items) :
             items[k] = results[first_longest(results, items[k].magnet)]

C2_Witness ==
    /\ pc = "save_data"
    /\ Len(results) = 3
    /\ results[1].magnet = results[2].magnet
    /\ results[2].magnet = results[3].magnet
    /\ Len(results[1].clean_title) < Len(results[2].clean_title)
    /\ Len(results[2].clean_title) = Len(results[3].clean_title)
    /\ results[2] # results[3]
    /\ items = <<results[2]>>

\* the acceptance rule of the Endpoint Resolver
accepted(resp) ==
    /\ ~resp.exception
    /\ resp.status_code = 200
    /\ resp.text \cap Markers # {}

C3_Inv ==
    /\ \A i \in 1..NumMirrors :
         probes[i] = IF i < mi \/ (i = mi /\ pc # "get_domain") THEN 1 ELSE 0
    /\ dom # None => dom = MIRRORS[mi]
    /\ pc \notin {"get_domain", "check_domain", "error"} => dom # None

C3_Step ==
    pc = "check_domain" =>
        IF accepted(r)
        THEN pc' = "fetch_homepage" /\ dom' = MIRRORS[mi] /\ mi' = mi
        ELSE /\ dom' = None
             /\ IF mi < NumMirrors
                THEN pc' = "get_domain" /\ mi' = mi + 1
                ELSE pc' = "error"

\* C3: get_domain probes the mirrors in list order, each at most once; a
\* candidate is accepted iff its status is 200 and its body holds a site
\* marker (an exception is a rejection and moves on); the first accepted
\* candidate is returned, every candidate before it has been probed exactly
\* once and none after it has been probed.
C3_Theorem == [](C3_Inv) /\ [][C3_Step]_vars

C3_Witness ==
    /\ pc = "fetch_homepage"
    /\ dom = MIRRORS[2]
    /\ probes[1] = 1
    /\ probes[2] = 1
    /\ probes[3] = 0

\* C4: the run ends in the error exit iff every mirror was rejected, and then
\* no topic was fetched and nothing was deduplicated or saved; once a mirror
\* is resolved the run never stops before remove_duplicates and save_data
\* have run, whatever fetch fails.
C4_Theorem ==
    /\ pc = "error" =>
         /\ dom = None
         /\ mi = NumMirrors
         /\ \A i \in 1..NumMirrors : probes[i] = 1
         /\ fetched = 0 /\ hi = 0 /\ ti = 0
         /\ results = <<>> /\ dedup_runs = 0 /\ saved = <<>>
    /\ (dom = None /\ mi = NumMirrors /\ probes[NumMirrors] = 1 /\ pc # "check_domain")
         => pc = "error"
    /\ pc \notin {"get_domain", "check_domain", "error"} => dom # None
    /\ pc = "done" => dedup_runs = 1 /\ saved = <<items>>
    /\ pc \notin {"done", "error"} => ENABLED Next

\* the homepage fetch failed after resolution: the run completed, empty catalog
C4_Witness ==
    /\ pc = "done"
    /\ dom # None
    /\ hi = 0
    /\ saved = << <<>> >>

\* C5: when a topic's cycle fails, only that topic is skipped: by the time
\* fetch_magnets returns, the homepage pass and the episodic pass have both
\* run through all of their topics.
C5_Claim ==
    (pc = "remove_duplicates" /\ topic_failed) =>
        /\ hi = Len(capped_topics(potential_topics)) + 1
        /\ ti = Len(tv_results) + 1

\* C6: a topic processed without an exception appends one entry per magnet
\* anchor of its document, the i-th entry carrying the i-th magnet.
C6_Claim ==
    (pc = "processed" /\ ~raised) =>
        LET magnets == magnets_of(soup)
        IN  /\ Len(results) = Len(before) + Len(magnets)
            /\ \A i \in 1..Len(magnets) :
                 Len(before) + i <= Len(results)
                 /\ results[Len(before) + i].magnet = magnets[i]

\* the title fragment the association rule gives the i-th magnet
expected_fragment(doc, title, i) ==
    LET magnets == magnets_of(doc)
        sections == doc.quality_sections
    IN  IF Len(magnets) = 1 THEN title
        ELSE IF Len(sections) >= Len(magnets)
        THEN IF Len(sections[i]) > 5 THEN sections[i] ELSE title
        ELSE title

\* C7: every magnet of a processed topic gets an entry whose title is the
\* fragment of the association rule: the topic title for a single magnet,
\* the i-th heading when there are enough headings and it is longer than the
\* minimum (else the topic title), the topic title when headings are too few.
C7_Claim ==
    (pc = "processed" /\ ~raised) =>
        LET magnets == magnets_of(soup)
        IN  \A i \in 1..Len(magnets) :
              \E k \in (Len(before) + 1)..Len(results) :
                 /\ results[k].magnet = magnets[i]
                 /\ results[k].title = expected_fragment(soup, TopicText, i)

\* C8 as stated: homepage-pass and episodic-pass candidates together never
\* number more than MAX_ENTRIES.
C8_Claim ==
    Len(capped_topics(potential_topics)) + Len(tv_results) <= MAX_ENTRIES

\* C8, amended: the homepage-pass candidates that are fetched never number
\* more than MAX_ENTRIES (the episodic pass adds its own, uncapped).
C8_Theorem ==
    /\ Len(capped_topics(potential_topics)) <= MAX_ENTRIES
    /\ hi <= MAX_ENTRIES + 1
    /\ ti = 0 => fetched <= MAX_ENTRIES

C8_Witness ==
    /\ pc = "find_tv_show_pages"
    /\ Len(potential_topics) > MAX_ENTRIES
    /\ hi = MAX_ENTRIES + 1
    /\ fetched = MAX_ENTRIES

C9_Step ==
    (pc = "tv_categories" /\ ci <= Len(tv_links)) =>
        /\ pc' = "tv_categories"
        /\ ci' = ci + 1
        /\ tv_links' = tv_links
        /\ IsPrefix(tv_results, tv_results')

\* C9: every iteration of the category loop of find_tv_show_pages, failing
\* or not, goes on to the next category page and keeps the topic candidates
\* collected so far.
C9_Theorem == [][C9_Step]_vars

\* category 2 failed, category 3 was visited, categories 1 and 3 both gave
\* a candidate
C9_Witness ==
    /\ pc = "tv_categories"
    /\ cat_failed = 2
    /\ ci = 4
    /\ Len(tv_results) = 2

rearrangements(entries) ==
    {[i \in 1..Len(entries) |-> entries[p[i]]] : p \in Permutations(1..Len(entries))}

\* the entry of a deduplicated list that carries magnet m
kept_for(unique, m) == unique[CHOOSE k \in 1..Len(unique) : unique[k].magnet = m]

\* C11: remove_duplicates depends on the order of its input only through
\* the tie rule: for every rearrangement of the input, the entry kept for a
\* magnet has the same clean_title length, and is the same entry when only
\* one entry of that magnet has the maximal clean_title length.
C11_Theorem ==
    pc = "save_data" =>
        \A perm \in rearrangements(results) :
            \A m \in magnet_set(results) :
                LET a == kept_for(items, m)
                    b == kept_for(remove_duplicates(perm), m)
                    longest == {i \in 1..Len(results) :
                                  /\ results[i].magnet = m
                                  /\ Len(results[i].clean_title) = Len(a.clean_title)}
                IN  /\ Len(a.clean_title) = Len(b.clean_title)
                    /\ Cardinality({results[i] : i \in longest}) = 1 => a = b

\* three entries of one magnet with three different title lengths, the
\* longest last
C11_Witness ==
    /\ pc = "save_data"
    /\ Len(results) = 3
    /\ magnet_set(results) = {MagnetA}
    /\ Len(results[2].clean_title) < Len(results[1].clean_title)
    /\ Len(results[1].clean_title) < Len(results[3].clean_title)
    /\ items = <<results[3]>>

\* the entry create_content_entry has appended
created == results[Len(results)]

\* a list holds no element twice
duplicate_free(list) ==
    \A i, j \in 1..Len(list) : list[i] = list[j] => i = j

\* C12: the languages of every entry form a set: extract_languages returns
\* each language code at most once, so a title containing "Tamil", "TAM" and
\* "Hindi" yields exactly the two tags TAM and HIN.
C12_Claim ==
    pc = "created" =>
        /\ duplicate_free(created.languages)
        /\ (contains(fragment, "Tamil") /\ contains(fragment, "TAM")
                /\ contains(fragment, "Hindi"))
            => created.languages = <<"TAM", "HIN">>

\* C13: the release year of an entry is the year captured by the episodic
\* pattern when that pattern matched, else the parenthesized four-digit
\* group of the raw title, else absent; it is never the wall-clock year.
C13_Claim ==
    pc = "created" =>
        created.release_date =
            IF tv_match(fragment).ok THEN tv_match(fragment).year
            ELSE year_group(fragment)

\* the clean title "<show> (S<season>E<episode>)" of a match of the primary
\* episodic pattern, the season zero-padded to two digits
episodic_clean_title(tv) ==
    strip(tv.show) \o " (S" \o pad2(tv.season) \o "E" \o tv.episode \o ")"

\* C14: for every raw title matching the primary episodic pattern
\* "<show> (<year>) S<season> EP(<episode-or-range>)" the entry is episodic,
\* its season is "S" followed by the season zero-padded to two digits, and
\* its clean title is "<show> (S<season>E<episode>)" with the season
\* zero-padded to two digits (so the movie-year stage did not produce it).
C14_Claim ==
    (pc = "created" /\ tv_match(fragment).ok) =>
        /\ created.is_tv_show
        /\ created.season = "S" \o pad2(tv_match(fragment).season)
        /\ created.clean_title = episodic_clean_title(tv_match(fragment))

\* C15: every entry built by create_content_entry has season and episode
\* either both present or both absent, and is classified episodic
\* (is_tv_show) exactly when both are present.
C15_Theorem ==
    pc = "created" =>
        /\ (created.season # "") <=> (created.episode # "")
        /\ created.is_tv_show <=> (created.season # "" /\ created.episode # "")

\* an entry made episodic by the alternative pattern, and no year in the title
C15_Witness ==
    /\ pc = "created"
    /\ fragment = "Office S1E05"
    /\ ~tv_match(fragment).ok
    /\ created.is_tv_show
    /\ created.show_name = "Office"
    /\ created.season = "S01"
    /\ created.episode = "E05"

\* the tags of the fixed order (1080p, 720p, 480p, 4K, HDR) and the markers
\* of each
quality_markers ==
    <<[tag |-> "1080p", markers |-> {"1080p"}],
      [tag |-> "720p", markers |-> {"720p"}],
      [tag |-> "480p", markers |-> {"480p"}],
      [tag |-> "4K", markers |-> {"2160p", "4K", "UHD"}],
      [tag |-> "HDR", markers |-> {"HDR"}]>>

\* the tags of the fixed order, from tag k on, whose marker is in the title
RECURSIVE present_tags(_, _)
present_tags(title, k) ==
    IF k > Len(quality_markers) THEN <<>>
    ELSE (IF \E m \in quality_markers[k].markers : contains(title, m)
          THEN <<quality_markers[k].tag>> ELSE <<>>)
         \o present_tags(title, k + 1)

\* C16: for every raw title extract_quality returns a duplicate-free
\* subsequence of the fixed order (1080p, 720p, 480p, 4K, HDR) that holds a
\* tag exactly when one of its markers is in the title; any combination of
\* "2160p", "4K" and "UHD" gives exactly one "4K" tag.
C16_Theorem ==
    pc = "created" =>
        /\ duplicate_free(created.qualities)
        /\ created.qualities = present_tags(fragment, 1)

\* a title with two of the markers of 4K, and HDR before them in the title
C16_Witness ==
    /\ pc = "created"
    /\ fragment = "HDR 2160p UHD"
    /\ created.qualities = <<"4K", "HDR">>

\* a raw title that is already clean: no UI or brand marker, no site prefix,
\* nothing the technical patterns remove, no language or quality tag, and
\* neither the episodic nor the movie-year form
already_clean(title) ==
    /\ \A k \in 1..Len(ui_elements) : ~contains(title, ui_elements[k])
    /\ strip_prefix(title) = title
    /\ strip_technical(title, 1) = title
    /\ extract_languages(title) = <<>>
    /\ extract_quality(title) = <<>>
    /\ ~tv_match(title).ok
    /\ ~alt_match(title).ok
    /\ ~movie_year_match(title).ok

\* C17: normalization is idempotent: for every raw title with no technical
\* tokens and no brand or noise markers, extract_proper_title returns that
\* title unchanged, whatever topic document and topic URL come with it.
C17_Claim ==
    (pc = "created" /\ already_clean(fragment)) =>
        created.clean_title = fragment

\* the raw title holds a noise marker
has_noise_marker(title) ==
    \E k \in 1..Len(ui_elements) : contains(title, ui_elements[k])

\* the first string of a list that is not empty, "" when all are
first_nonempty(list) ==
    LET hits == SelectSeq(list, LAMBDA s : s # "")
    IN  IF hits = <<>> THEN "" ELSE hits[1]

\* per heading, its "<name> (<year>)" part when the name has at least
\* min_name characters, "" otherwise
year_headings(doc, min_name) ==
    [k \in 1..Len(doc.headings) |->
        LET m == movie_year_match(strip(doc.headings[k].text))
        IN  IF m.ok /\ Len(strip(m.name)) >= min_name THEN strip(m.whole)
            ELSE ""]

\* what the four probes of the known-noise chain yield, in the order page-title
\* element, heading with a year, document title without the site suffix,
\* URL path
noise_probes(doc, page_url, min_name) ==
    <<strip(doc.pagetitle),
      first_nonempty(year_headings(doc, min_name)),
      cut_site_suffix(strip(doc.title), {"1TamilMV", "TamilMV"}),
      noise_url_title(page_url)>>

\* the first probe that yields at least 6 characters, else the placeholder
first_long_probe(yields) ==
    LET long == SelectSeq(yields, LAMBDA s : Len(s) >= 6)
    IN  IF long = <<>> THEN "Unknown Title (See Details)" ELSE long[1]

\* C18 as stated: when the raw title holds a noise marker, the clean title is
\* what the first of the probes page-title element, heading with a
\* parenthesized four-digit year, document title without the site suffix,
\* URL path yields that has at least 6 characters, and the placeholder when
\* none has.
C18_Claim ==
    (pc = "created" /\ has_noise_marker(fragment)) =>
        created.clean_title = first_long_probe(noise_probes(soup, topic_url, 0))

\* C18: the chain and its order are as stated, except that the heading probe
\* yields only for a heading whose name before the year has more than 3
\* characters (and then yields "<name> (<year>)"); a heading with a shorter
\* name is passed over.
C18_Theorem ==
    (pc = "created" /\ has_noise_marker(fragment)) =>
        created.clean_title = first_long_probe(noise_probes(soup, topic_url, 4))

\* the heading "Leo (2023)" is passed over and the document title wins
C18_Witness ==
    /\ pc = "created"
    /\ has_noise_marker(fragment)
    /\ Len(strip(soup.pagetitle)) < 6
    /\ Len(soup.headings) >= 1
    /\ soup.headings[1].text = "Leo (2023)"
    /\ soup.title = "Leo Tamil - 1TamilMV.com"
    /\ created.clean_title = "Leo Tamil"

\* a raw title for the generic stripping stage: no noise marker, no episodic
\* pattern and no movie-year pattern
for_generic_stage(title) ==
    /\ ~has_noise_marker(title)
    /\ ~tv_match(title).ok
    /\ ~alt_match(title).ok
    /\ ~movie_year_match(title).ok

\* C19: for a raw title that matches no episodic pattern, no noise marker and
\* no movie-year pattern (and a document that offers no title, so that the
\* generic stripping stage is reached), the clean title is the raw title with
\* the technical tokens removed when that residual is non-empty and at least
\* 10 characters long, and otherwise the unmodified raw title.
C19_Claim ==
    (pc = "created" /\ for_generic_stage(fragment) /\ page_title(soup) = "") =>
        created.clean_title =
            IF Len(strip_technical(fragment, 1)) >= 10
            THEN strip_technical(fragment, 1)
            ELSE fragment

\* the calls considered that pass the raw title t, with whatever document
\* and link
calls_with(t) ==
    UNION {[title : {t}, doc : g.docs, link : g.links, now : g.nows] :
              g \in {h \in EntryGroups : t \in h.titles}}

\* C20: the languages, the quality tags and the show, season and episode
\* fields of an entry depend on the raw title fragment alone: every call of
\* create_content_entry with the same raw fragment gives the same languages,
\* qualities, is_tv_show, show_name, season and episode, whatever clean
\* title the topic document or URL produced.
C20_Theorem ==
    pc = "created" =>
        \A inp \in calls_with(fragment) :
            /\ entry_of[inp].languages = created.languages
            /\ entry_of[inp].qualities = created.qualities
            /\ entry_of[inp].is_tv_show = created.is_tv_show
            /\ entry_of[inp].show_name = created.show_name
            /\ entry_of[inp].season = created.season
            /\ entry_of[inp].episode = created.episode

\* an episodic entry with a language, whose fragment gets another clean
\* title with another document
C20_Witness ==
    /\ pc = "created"
    /\ created.is_tv_show
    /\ created.languages = <<"TAM">>
    /\ \E inp \in calls_with(fragment) :
          /\ inp.doc # soup
          /\ entry_of[inp].clean_title # created.clean_title
          /\ extract_languages(entry_of[inp].clean_title) # created.languages

\* the magnets of a list of entries, entry by entry
magnet_list(entries) == [k \in 1..Len(entries) |-> entries[k].magnet]

\* the magnets of a list of entries from entry i on, each at its first
\* occurrence in the list
RECURSIVE first_occurrences(_, _)
first_occurrences(entries, i) ==
    IF i > Len(entries) THEN <<>>
    ELSE (IF \E j \in 1..(i - 1) : entries[j].magnet = entries[i].magnet
          THEN <<>> ELSE <<entries[i].magnet>>)
         \o first_occurrences(entries, i + 1)

\* C21: every entry remove_duplicates returns is one of its input entries,
\* unmodified; the output lists the magnets in the order of their first
\* occurrence in the input, also when a later entry with a longer
\* clean_title replaced the first one; and remove_duplicates applied to its
\* own output returns it unchanged.
C21_Theorem ==
    pc = "save_data" =>
        /\ \A k \in 1..Len(items) : \E i \in 1..Len(results) : items[k] = results[i]
        /\ magnet_list(items) = first_occurrences(results, 1)
        /\ remove_duplicates(items) = items

\* the first entry was replaced by the third, which has a longer clean_title,
\* and still comes before the entry of the other magnet
C21_Witness ==
    /\ pc = "save_data"
    /\ Len(results) = 3
    /\ results[1].magnet = results[3].magnet
    /\ results[2].magnet # results[1].magnet
    /\ Len(results[3].clean_title) > Len(results[1].clean_title)
    /\ items = <<results[3], results[2]>>

\* after fetch_magnets the catalog holds the magnets of results, no more and
\* no fewer, and so does the catalog that was saved
C22_Inv ==
    /\ pc \in {"save_data", "done"} => magnet_set(items) = magnet_set(results)
    /\ pc = "done" => (Len(saved) = 1 /\ magnet_set(saved[1]) = magnet_set(results))

\* results only grows: an entry that was appended stays
C22_Step == IsPrefix(results, results')

\* C22: across a whole run, the set of magnets of the final catalog passed to
\* save_data is the set of magnets of all entries appended to results during
\* fetch_magnets: deduplication loses no magnet and introduces none, also
\* when the homepage pass and the episodic pass both find a topic and it is
\* processed twice.
C22_Theorem == [](C22_Inv) /\ [][C22_Step]_vars

\* both passes processed the same topic: the entry of the homepage pass and
\* the entry of the episodic pass have the same link and the same magnet,
\* and the saved catalog holds that magnet once
C22_Witness ==
    /\ pc = "done"
    /\ Len(results) = 2
    /\ results[1].title = TopicText
    /\ results[2].title = TvTopicText
    /\ results[1].link = results[2].link
    /\ results[1].magnet = results[2].magnet
    /\ Len(saved[1]) = 1
    /\ magnet_set(saved[1]) = {results[1].magnet}

====
